---------------------------- MODULE Spec2Model ----------------------------
(***************************************************************************)
(* Model of the connect-four state-space explorer of src/src/tree.rs       *)
(* (Board, Result, GameState, Tree) as a state machine.                    *)
(*                                                                         *)
(* Encoding.  Option<T> is a sequence: None is <<>> and Some(v) is <<v>>.  *)
(* Handles (StateIndex) are the source's 0-based integers; the arena slot  *)
(* of handle h is nodes[h + 1].  Column x, row y of a board b is           *)
(* b[x + 1][y + 1].  Players are numbered in the declaration order of the  *)
(* enum, which is the order #[derive(Ord)] compares them in.               *)
(***************************************************************************)
EXTENDS Integers, Sequences, FiniteSets, TLC

\* BOARD_SIZE.0 and BOARD_SIZE.1
W == 7
H == 6

\* enum Player, in declaration order
Red == 0
Yellow == 1
Empty == 2
\* the value standing for the panic of Player::flip on Empty
Panicked == 3

\* Bounds of the model
MaxDepth == 3
MaxCalls == 2
MaxNodes == 5
MaxPlies == 2
MaxPruneNodes == 30
MaxMaskNodes == 3

None == <<>>
Some(v) == <<v>>

Cols == 0 .. (W - 1)
Rows == 0 .. (H - 1)

Min(S) == CHOOSE m \in S : \A n \in S : m <= n

---------------------------------------------------------------------------
\* Player

flip(p) ==
    CASE p = Red -> Yellow
      [] p = Yellow -> Red
      [] OTHER -> Panicked

---------------------------------------------------------------------------
\* Board

Cell(b, x, y) == b[x + 1][y + 1]

empty == [x \in 1 .. W |-> [y \in 1 .. H |-> Empty]]

\* The rows of column col, lowest first, that the loop of play finds Empty.
EmptyRows(b, col) == {y \in Rows : Cell(b, col, y) = Empty}

play_top(b, col, player) ==
    IF EmptyRows(b, col) = {}
    THEN [board |-> b, row |-> None]
    ELSE LET y == H - 1
         IN  [board |-> [b EXCEPT ![col + 1][y + 1] = player], row |-> Some(y)]

\* play mutates the board in place and returns Option<usize>: the pair of
\* the board afterwards and the returned row.
play(b, col, player) ==
    IF EmptyRows(b, col) = {}
    THEN [board |-> b, row |-> None]
    ELSE LET y == Min(EmptyRows(b, col))
         IN  [board |-> [b EXCEPT ![col + 1][y + 1] = player], row |-> Some(y)]

mirror(b) == [x \in 1 .. W |-> b[W + 1 - x]]

\* Vec<Player> < Vec<Player> for two columns of the same length
ColLess(c, d) ==
    LET diff == {y \in 1 .. H : c[y] # d[y]}
    IN  diff # {} /\ c[Min(diff)] < d[Min(diff)]

GridLess_first(a, b) == ColLess(a[1], b[1])

\* Vec<Vec<Player>> < Vec<Vec<Player>>: lexicographic over the columns
GridLess(a, b) ==
    LET diff == {x \in 1 .. W : a[x] # b[x]}
    IN  diff # {} /\ ColLess(a[Min(diff)], b[Min(diff)])

canonical_identity(b) == b

canonical(b) == IF GridLess(b, mirror(b)) THEN b ELSE mirror(b)

Board_from_turn_unchecked(b, col, player) == Some(play(b, col, player).board)

Board_from_turn(b, col, player) ==
    LET played == play(b, col, player)
    IN  IF played.row # None THEN Some(played.board) ELSE None

\* impl PartialEq for Board
BoardEq(a, b) == canonical(a) = canonical(b)

---------------------------------------------------------------------------
\* Result

Win(p) == <<"Win", p>>
Draw == <<"Draw">>
Ongoing == <<"Ongoing">>

Horizontal_short(b, x, y, p) ==
    /\ x + 4 < W
    /\ Cell(b, x + 1, y) = p
    /\ Cell(b, x + 2, y) = p
    /\ Cell(b, x + 3, y) = p

Horizontal(b, x, y, p) ==
    /\ x + 3 < W
    /\ Cell(b, x + 1, y) = p
    /\ Cell(b, x + 2, y) = p
    /\ Cell(b, x + 3, y) = p

Vertical(b, x, y, p) ==
    /\ y + 3 < H
    /\ Cell(b, x, y + 1) = p
    /\ Cell(b, x, y + 2) = p
    /\ Cell(b, x, y + 3) = p

DiagonalUp(b, x, y, p) ==
    /\ x + 3 < W
    /\ y + 3 < H
    /\ Cell(b, x + 1, y + 1) = p
    /\ Cell(b, x + 2, y + 2) = p
    /\ Cell(b, x + 3, y + 3) = p

DiagonalDown(b, x, y, p) ==
    /\ x >= 3
    /\ y + 3 < H
    /\ Cell(b, x - 1, y + 1) = p
    /\ Cell(b, x - 2, y + 2) = p
    /\ Cell(b, x - 3, y + 3) = p

\* The cells at which the scan of from_board returns a win
WinCells(b) ==
    {c \in Cols \X Rows :
        LET p == Cell(b, c[1], c[2])
        IN  /\ p # Empty
            /\ \/ Horizontal(b, c[1], c[2], p)
               \/ Vertical(b, c[1], c[2], p)
               \/ DiagonalUp(b, c[1], c[2], p)
               \/ DiagonalDown(b, c[1], c[2], p)}

\* for x in 0..W { for y in 0..H { ... } }: c is scanned no later than d
ScanBefore(c, d) == c[1] < d[1] \/ (c[1] = d[1] /\ c[2] <= d[2])

Result_from_board(b) ==
    LET wins == WinCells(b)
    IN  IF wins # {}
        THEN LET first == CHOOSE c \in wins : \A d \in wins : ScanBefore(c, d)
             IN  Win(Cell(b, first[1], first[2]))
        ELSE IF \A x \in Cols, y \in Rows : Cell(b, x, y) # Empty
             THEN Draw
             ELSE Ongoing

---------------------------------------------------------------------------
\* GameState

GameState_from_board(board, turn) ==
    [board |-> board, turn |-> turn, result |-> Result_from_board(board),
     children |-> <<>>, index |-> None]

GameState_from_turn_unflipped(s, col) ==
    LET board == Board_from_turn(s.board, col, s.turn)
    IN  IF board # None
        THEN Some([board |-> board[1], turn |-> s.turn,
                   result |-> Result_from_board(board[1]),
                   children |-> <<>>, index |-> None])
        ELSE None

GameState_from_turn(s, col) ==
    LET board == Board_from_turn(s.board, col, s.turn)
    IN  IF board # None
        THEN Some([board |-> board[1], turn |-> flip(s.turn),
                   result |-> Result_from_board(board[1]),
                   children |-> <<>>, index |-> None])
        ELSE None

---------------------------------------------------------------------------
\* Tree

VARIABLES
    root_index,     \* Tree.root_index
    nodes,          \* Tree.nodes, the arena
    map,            \* Tree.map, canonical board -> handle
    calls,          \* how many explore / explore_further calls were made
    last_call,      \* the last of them: <<name, depth, handle>>
    rediscoveries,  \* observer: what each rediscovery of the last call did
    full_columns,   \* observer: what each full-column attempt of the last call did
    gs,             \* a GameState outside any tree (the caller's)
    other,          \* a second board outside any tree
    mask,           \* the caller's keep-mask (Vec<bool>), <<>> before any pruning
    masked_from     \* the tree mask_nodes was called on and its keep, <<>> if none

vars == <<root_index, nodes, map, calls, last_call, rediscoveries, full_columns,
          gs, other, mask, masked_from>>

Node(t, h) == t.nodes[h + 1]

\* HashMap<Board, StateIndex>.  Hash and Eq of Board go through canonical(),
\* and every key the program inserts is canonical, so the entry a lookup of
\* board b finds is the one stored under canonical(b).
EmptyMap == [k \in {} |-> 0]

MapGet_raw(m, b) == IF b \in DOMAIN m THEN Some(m[b]) ELSE None

MapGet_root(m, b) == IF DOMAIN m # {} THEN Some(0) ELSE None

MapGet(m, b) == IF canonical(b) \in DOMAIN m THEN Some(m[canonical(b)]) ELSE None

MapInsert(m, k, v) == (k :> v) @@ m

\* Tree::from_root: the root is cloned into slot 0; the map starts empty.
from_root(root) ==
    [root_index |-> 0,
     nodes |-> <<[root EXCEPT !.index = Some(0)]>>,
     map |-> EmptyMap,
     rediscoveries |-> {},
     full_columns |-> {}]

next_index(t) == Len(t.nodes)

RECURSIVE FindChildren(_, _, _)
RECURSIVE FindColumns(_, _, _, _)

\* lines 377-379: the board is in the map; the existing handle is pushed.
LinkExisting_reexpand(t, state_index, idx) ==
    IF Node(t, idx).children = <<>>
    THEN FindChildren([t EXCEPT !.nodes[state_index + 1].children =
                                    Append(@, Some(idx))], idx, 1)
    ELSE [t EXCEPT !.nodes[state_index + 1].children = Append(@, Some(idx))]

LinkExisting(t, state_index, idx) ==
    [t EXCEPT !.nodes[state_index + 1].children = Append(@, Some(idx))]

Allocate_unindexed(t, state_index, new_state) ==
    LET new_index == next_index(t)
    IN  [t EXCEPT
            !.nodes = Append([t.nodes EXCEPT ![state_index + 1].children =
                                                 Append(@, Some(new_index))],
                             new_state),
            !.map = MapInsert(@, canonical(new_state.board), new_index)]

\* lines 382-386: a new slot, a new map entry, the new handle pushed.
Allocate(t, state_index, new_state) ==
    LET new_index == next_index(t)
    IN  [t EXCEPT
            !.nodes = Append([t.nodes EXCEPT ![state_index + 1].children =
                                                 Append(@, Some(new_index))],
                             [new_state EXCEPT !.index = Some(new_index)]),
            !.map = MapInsert(@, canonical(new_state.board), new_index)]

PushNone_skip(t, state_index) == t

\* line 390: the placeholder of an invalid move
PushNone(t, state_index) ==
    [t EXCEPT !.nodes[state_index + 1].children = Append(@, None)]

\* Observer of one rediscovery: before and after are the tree around it.
\* The handle found is not dereferenced by the branch, so the observer reads
\* the node it names only when there is one.
RediscoveryEvent(before, after, state_index, idx, depth, board) ==
    LET in_range == idx < Len(before.nodes)
    IN  [depth |-> depth,
         in_range |-> in_range,
         same_board |-> in_range /\ BoardEq(Node(before, idx).board, board),
         linked |-> Node(after, state_index).children =
                        Append(Node(before, state_index).children, Some(idx)),
         mirrored |-> in_range /\ Node(before, idx).board # board,
         slots |-> Len(after.nodes) - Len(before.nodes),
         child_kept |-> in_range /\ Node(after, idx).children = Node(before, idx).children,
         child_open |-> in_range /\ Node(before, idx).result = Ongoing,
         child_expanded |-> in_range /\ Node(before, idx).children # <<>>]

\* Observer of one attempt on a full column.
FullColumnEvent(before, after, state_index, x) ==
    [col |-> x,
     play_row |-> play(Node(before, state_index).board, x,
                       Node(before, state_index).turn).row,
     board_kept |-> /\ Node(after, state_index).board = Node(before, state_index).board
                    /\ play(Node(before, state_index).board, x,
                            Node(before, state_index).turn).board
                         = Node(before, state_index).board,
     slots |-> Len(after.nodes) - Len(before.nodes),
     entries |-> Cardinality(DOMAIN after.map) - Cardinality(DOMAIN before.map),
     placeholder |-> Node(after, state_index).children =
                         Append(Node(before, state_index).children, None)]

\* One iteration of the loop of find_children, for column x.
FindColumn(t, state_index, depth, x) ==
    LET new_state == GameState_from_turn(Node(t, state_index), x)
    IN  IF new_state # None
        THEN LET found == MapGet(t.map, new_state[1].board)
             IN  IF found # None
                 THEN LET after == LinkExisting(t, state_index, found[1])
                      IN  [after EXCEPT !.rediscoveries = @ \cup
                              {RediscoveryEvent(t, after, state_index, found[1],
                                                depth, new_state[1].board)}]
                 ELSE FindChildren(Allocate(t, state_index, new_state[1]),
                                   next_index(t), depth - 1)
        ELSE LET after == PushNone(t, state_index)
             IN  [after EXCEPT !.full_columns = @ \cup
                     {FullColumnEvent(t, after, state_index, x)}]

\* for x in 0..BOARD_SIZE.0, from column x on.  The tree after column x is
\* bound as a value (next) before the loop goes on, so that the columns are
\* evaluated in the order the loop runs them.
FindColumns(t, state_index, depth, x) ==
    IF x = W
    THEN t
    ELSE CHOOSE done \in {FindColumns(next, state_index, depth, x + 1) :
                              next \in {FindColumn(t, state_index, depth, x)}} : TRUE

Bottom_depth_only(t, state_index, depth) == depth = 0

Bottom_shallow(t, state_index, depth) ==
    depth <= 1 \/ Node(t, state_index).result # Ongoing

Bottom_late(t, state_index, depth) ==
    depth = -1 \/ Node(t, state_index).result # Ongoing

\* line 371: the call bottoms out
Bottom(t, state_index, depth) ==
    depth = 0 \/ Node(t, state_index).result # Ongoing

FindChildren(t, state_index, depth) ==
    IF Bottom(t, state_index, depth)
    THEN t
    ELSE FindColumns(t, state_index, depth, 0)

\* The tree as a value, with the observers of a call starting empty.
Tree == [root_index |-> root_index, nodes |-> nodes, map |-> map,
         rediscoveries |-> {}, full_columns |-> {}]

SetTree(t) ==
    /\ root_index' = t.root_index
    /\ nodes' = t.nodes
    /\ map' = t.map
    /\ rediscoveries' = t.rediscoveries
    /\ full_columns' = t.full_columns

---------------------------------------------------------------------------
\* Read accessors and the pruner of src/src/main.rs

IsSome(c) == c # None

\* GameState::ok_children / Tree::iter_ok_children: the realized children,
\* in the order of the list, each still wrapped as Some(handle)
ok_children(n) == SelectSeq(n.children, IsSome)

RECURSIVE count_sub_children(_, _)
RECURSIVE CountFrom(_, _, _)

\* the sum over children[k ..] of count_sub_children's closure
CountFrom(t, children, k) ==
    IF k > Len(children)
    THEN 0
    ELSE (IF children[k] # None
          THEN 1 + count_sub_children(t, children[k][1])
          ELSE 0) + CountFrom(t, children, k + 1)

count_sub_children(t, si) == CountFrom(t, Node(t, si).children, 1)

\* count_children starts at StateIndex(0), not at root_index
count_children(t) == count_sub_children(t, 0)

\* vec![false; tree.nodes.len()]
AllFalse(t) == [i \in 1 .. Len(t.nodes) |-> FALSE]

OwnWin_terminal(result) == result # Ongoing

\* match tree[state].result { Result::Win(_) => true, _ => false }
OwnWin(result) == result[1] = "Win"

RECURSIVE prune_to_wins(_, _, _)
RECURSIVE PruneWinsChildren(_, _, _, _, _)

\* The loop of prune_to_wins over the realized children, from the k-th on:
\* the mask after it and this_one.
PruneWinsChildren(t, keep, children, k, this_one) ==
    IF k > Len(children)
    THEN [nodes |-> keep, this_one |-> this_one]
    ELSE CHOOSE done \in
             {PruneWinsChildren(t, r.nodes, children, k + 1, this_one \/ r.ret) :
                  r \in {prune_to_wins(t, keep, children[k][1])}} : TRUE

\* prune_to_wins writes the mask in place and returns a bool: the pair of
\* the mask afterwards (nodes) and the returned value (ret).
prune_to_wins(t, keep, state) ==
    LET done == PruneWinsChildren(t, keep, ok_children(Node(t, state)), 1,
                                  OwnWin(Node(t, state).result))
    IN  [nodes |-> [done.nodes EXCEPT ![state + 1] = done.this_one],
         ret |-> done.this_one]

NotEmpty(p) == p # Empty

\* col.iter().filter(|&&p| p != Player::Empty).collect()
ColumnPieces(col) == SelectSeq(col, NotEmpty)

FastRejectColumn_atleast(col, target_col) ==
    Len(ColumnPieces(col)) >= Len(ColumnPieces(target_col))

\* the two tests of the fast impossible-branch check, for one column
FastRejectColumn(col, target_col) ==
    \/ Len(ColumnPieces(col)) > Len(ColumnPieces(target_col))
    \/ /\ Len(ColumnPieces(col)) = Len(ColumnPieces(target_col))
       /\ ColumnPieces(col) # ColumnPieces(target_col)

\* the loop over the zipped columns returns at the first that fails a test
FastReject(board, target) ==
    \E x \in 1 .. W : FastRejectColumn(board[x], target[x])

IsTarget_never(board, target) == FALSE

\* board.canonical() == target.canonical(), by Board's ==
IsTarget(board, target) == BoardEq(canonical(board), canonical(target))

RECURSIVE prune_to_target(_, _, _, _)
RECURSIVE PruneTargetChildren(_, _, _, _, _, _)

PruneTargetChildren(t, keep, children, k, target, this_one) ==
    IF k > Len(children)
    THEN [mask |-> keep, this_one |-> this_one]
    ELSE CHOOSE done \in
             {PruneTargetChildren(t, r.mask, children, k + 1, target,
                                  this_one \/ r.ret) :
                  r \in {prune_to_target(t, keep, children[k][1], target)}} : TRUE

\* prune_to_target: the pair of the mask afterwards and the returned value.
prune_to_target(t, keep, state, target) ==
    IF FastReject(Node(t, state).board, target)
    THEN [mask |-> [keep EXCEPT ![state + 1] = FALSE], ret |-> FALSE]
    ELSE LET done == PruneTargetChildren(t, keep, ok_children(Node(t, state)), 1,
                         target, IsTarget(Node(t, state).board, target))
         IN  [mask |-> [done.mask EXCEPT ![state + 1] = done.this_one],
              ret |-> done.this_one]

old_to_new_unshifted(keep) ==
    [i \in 1 .. Len(keep) |-> IF keep[i] THEN Some(i - 1) ELSE None]

\* old_to_new: the new handle of every kept slot, counting the kept slots
\* before it; None for a slot that is dropped
old_to_new(keep) ==
    [i \in 1 .. Len(keep) |->
        IF keep[i] THEN Some(Cardinality({j \in 1 .. (i - 1) : keep[j]})) ELSE None]

\* new_children of one retained node: the realized children that are kept,
\* remapped; None entries and dropped children leave no entry
new_children(n, remap) ==
    LET Kept(c) == remap[c[1] + 1] # None
        kept == SelectSeq(ok_children(n), Kept)
    IN  [k \in 1 .. Len(kept) |-> Some(remap[kept[k][1] + 1][1])]

\* Tree::mask_nodes.  The map is a private field of tree.rs and is not
\* touched.
mask_nodes(t, keep) ==
    LET remap == old_to_new(keep)
        Kept(i) == keep[i]
        slots == SelectSeq([i \in 1 .. Len(t.nodes) |-> i], Kept)
        new_nodes == [k \in 1 .. Len(slots) |->
                         [t.nodes[slots[k]] EXCEPT
                             !.children = new_children(t.nodes[slots[k]], remap),
                             !.index = Some(k - 1)]]
    IN  [t EXCEPT
            !.root_index = IF remap[t.root_index + 1] # None
                           THEN remap[t.root_index + 1][1]
                           ELSE 0,
            !.nodes = new_nodes]

---------------------------------------------------------------------------
\* Inputs: the positions a caller starts from

Column(pieces) == [y \in 1 .. H |-> IF y <= Len(pieces) THEN pieces[y] ELSE Empty]

\* three of Red in row 0, columns 0-2, Yellow above them
BoardScenarioB ==
    <<Column(<<Red, Yellow>>), Column(<<Red, Yellow>>), Column(<<Red, Yellow>>),
      Column(<<>>), Column(<<>>), Column(<<>>), Column(<<>>)>>

\* a middle game with a win in each of the four directions two plies away
BoardMiddle ==
    <<Column(<<Yellow>>), Column(<<>>), Column(<<Yellow, Yellow, Yellow>>),
      Column(<<Red, Red, Red, Yellow>>), Column(<<Red, Red, Yellow>>),
      Column(<<Red>>), Column(<<>>)>>

\* a full board without a line of four: rows 0-2 alternate from Red, rows 3-5
\* from Yellow
FullCell(x, y) == IF (x % 2 = 0) = (y < 3) THEN Red ELSE Yellow

\* that board with the top of column 1 and the two tops of column 2 missing
BoardLate ==
    [x \in 1 .. W |-> [y \in 1 .. H |->
        IF (x = 2 /\ y > 5) \/ (x = 3 /\ y > 4) THEN Empty ELSE FullCell(x - 1, y - 1)]]

\* that board with the tops of columns 0 and 1 missing
BoardLast ==
    [x \in 1 .. W |-> [y \in 1 .. H |->
        IF (x = 1 /\ y > 5) \/ (x = 2 /\ y > 5) THEN Empty ELSE FullCell(x - 1, y - 1)]]

\* that board with the tops of columns 0, 3 and 6 missing: a position that
\* is its own mirror image
BoardEnd ==
    [x \in 1 .. W |-> [y \in 1 .. H |->
        IF x \in {1, 4, 7} /\ y > 5 THEN Empty ELSE FullCell(x - 1, y - 1)]]

Roots ==
    {GameState_from_board(canonical(empty), Red),
     GameState_from_board(BoardScenarioB, Red),
     GameState_from_board(BoardMiddle, Red),
     GameState_from_board(BoardLate, Yellow),
     GameState_from_board(BoardLast, Red),
     GameState_from_board(BoardEnd, Yellow)}

Pieces(b) == Cardinality({c \in Cols \X Rows : Cell(b, c[1], c[2]) # Empty})

---------------------------------------------------------------------------
\* The explorer

Init ==
    \E root \in Roots :
        /\ root_index = from_root(root).root_index
        /\ nodes = from_root(root).nodes
        /\ map = from_root(root).map
        /\ rediscoveries = {}
        /\ full_columns = {}
        /\ calls = 0
        /\ last_call = <<>>
        /\ gs = root
        /\ other = root.board
        /\ mask = <<>>
        /\ masked_from = <<>>

CanCall == calls < MaxCalls /\ Len(nodes) <= MaxNodes

\* On an arena without the slot of root_index (mask_nodes can leave one),
\* self[&state_index] panics and the call changes nothing.
Explore(depth) ==
    /\ CanCall
    /\ root_index < Len(nodes)
    /\ SetTree(FindChildren(Tree, root_index, depth))
    /\ calls' = calls + 1
    /\ last_call' = <<"explore", depth, root_index>>
    /\ UNCHANGED <<gs, other, mask, masked_from>>

ExploreFurther(depth, head) ==
    /\ CanCall
    /\ SetTree(FindChildren(Tree, head, depth))
    /\ calls' = calls + 1
    /\ last_call' = <<"explore_further", depth, head>>
    /\ UNCHANGED <<gs, other, mask, masked_from>>

Next ==
    \/ \E depth \in 0 .. MaxDepth : Explore(depth)
    \/ \E depth \in 0 .. MaxDepth, head \in 0 .. (Len(nodes) - 1) :
           ExploreFurther(depth, head)

Spec == Init /\ [][Next]_vars

---------------------------------------------------------------------------
\* Boards and game states on their own: a game played from a root position
\* by GameState::from_turn, beside a second board played on by Board::play

InitBoards ==
    \E root \in Roots : \E b \in {root.board, mirror(root.board)} :
        /\ root_index = from_root(root).root_index
        /\ nodes = from_root(root).nodes
        /\ map = from_root(root).map
        /\ rediscoveries = {}
        /\ full_columns = {}
        /\ calls = 0
        /\ last_call = <<>>
        /\ gs = root
        /\ other = b
        /\ mask = <<>>
        /\ masked_from = <<>>

\* The moves made so far on the two boards together
Plies == (Pieces(gs.board) - Pieces(nodes[1].board))
             + (Pieces(other) - Pieces(nodes[1].board))

Turn(col) ==
    /\ gs.result = Ongoing
    /\ Plies < MaxPlies
    /\ GameState_from_turn(gs, col) # None
    /\ gs' = GameState_from_turn(gs, col)[1]
    /\ UNCHANGED <<root_index, nodes, map, calls, last_call, rediscoveries, full_columns, other,
                   mask, masked_from>>

Play(col, player) ==
    /\ Plies < MaxPlies
    /\ other' = play(other, col, player).board
    /\ UNCHANGED <<root_index, nodes, map, calls, last_call, rediscoveries, full_columns, gs,
                   mask, masked_from>>

NextBoards ==
    \/ \E col \in Cols : Turn(col)
    \/ \E col \in Cols, player \in {Red, Yellow} : Play(col, player)

SpecBoards == InitBoards /\ [][NextBoards]_vars

---------------------------------------------------------------------------
\* The explorer with its pruner: a tree is explored, a keep-mask is computed
\* on it from the root, the tree is compacted to a mask, and exploration may
\* go on afterwards.  The pruning passes and the compaction are run on trees
\* that were not compacted before.  A pruning pass reads the tree and starts
\* from a mask of its own, so that one pass stands for any number of them.

CanPrune == masked_from = <<>> /\ Len(nodes) <= MaxPruneNodes

\* prune_to_wins(&tree, &mut mask, &tree.root_index) on vec![false; len]
PruneToWins ==
    /\ CanPrune
    /\ mask = <<>>
    /\ mask' = prune_to_wins(Tree, AllFalse(Tree), root_index).nodes
    /\ last_call' = <<"prune_to_wins", root_index>>
    /\ UNCHANGED <<root_index, nodes, map, calls, rediscoveries, full_columns,
                   gs, other, masked_from>>

\* prune_to_target(&tree, &mut mask, &tree.root_index, &target) on
\* vec![false; len], the target being the board of a slot of the tree
PruneToTarget(target_index) ==
    /\ CanPrune
    /\ mask = <<>>
    /\ mask' = prune_to_target(Tree, AllFalse(Tree), root_index,
                               nodes[target_index + 1].board).mask
    /\ last_call' = <<"prune_to_target", target_index>>
    /\ UNCHANGED <<root_index, nodes, map, calls, rediscoveries, full_columns,
                   gs, other, masked_from>>

\* The masks a caller passes to mask_nodes: the mask of the last pruning
\* pass, that mask with the root forced to be kept (mask[0] = true), and, on
\* a small tree, any mask of the arena's length.
Keeps ==
    (IF Len(mask) = Len(nodes)
     THEN {mask, [mask EXCEPT ![root_index + 1] = TRUE]}
     ELSE {})
    \cup (IF Len(nodes) <= MaxMaskNodes THEN [1 .. Len(nodes) -> BOOLEAN] ELSE {})

MaskNodes(keep) ==
    /\ CanPrune
    /\ Len(keep) = Len(nodes)
    /\ SetTree(mask_nodes(Tree, keep))
    /\ masked_from' = [root_index |-> root_index, nodes |-> nodes, keep |-> keep]
    /\ last_call' = <<"mask_nodes">>
    /\ UNCHANGED <<calls, gs, other, mask>>

NextPrune ==
    \/ \E depth \in 0 .. MaxDepth : Explore(depth)
    \/ \E depth \in 0 .. MaxDepth, head \in 0 .. (Len(nodes) - 1) :
           ExploreFurther(depth, head)
    \/ PruneToWins
    \/ \E target_index \in 0 .. (Len(nodes) - 1) : PruneToTarget(target_index)
    \/ \E keep \in Keeps : MaskNodes(keep)

SpecPrune == Init /\ [][NextPrune]_vars

---------------------------------------------------------------------------
\* Notions the properties are stated in

Handles == 0 .. (Len(nodes) - 1)

ColumnFull(b, col) == \A y \in Rows : Cell(b, col, y) # Empty

RootBoard == nodes[root_index + 1].board

\* The state is the one a single explore(depth) leaves on a fresh tree.
FreshExplore == calls = 1 /\ last_call[1] = "explore"

\* Tree[idx].children.get(col), flattened: the handle a consumer that maps
\* column col to a child gets at handle h (None when h is None).
ChildAt(h, col) ==
    IF h = None
    THEN None
    ELSE IF col < Len(nodes[h[1] + 1].children)
         THEN nodes[h[1] + 1].children[col + 1]
         ELSE None

\* The positions reached from the root's board by the legal column sequences
\* of length at most k that pass only through Ongoing positions, each with
\* the handle that following children[col] from the root handle ends at.
RECURSIVE Reached(_, _)
Reached(frontier, k) ==
    IF k = 0
    THEN frontier
    ELSE frontier \cup
         Reached({[state |-> GameState_from_turn(p.state, col)[1],
                   handle |-> ChildAt(p.handle, col)] :
                      <<p, col>> \in
                          {pc \in frontier \X Cols :
                              /\ pc[1].state.result = Ongoing
                              /\ GameState_from_turn(pc[1].state, pc[2]) # None}},
                 k - 1)

ReachedFromRoot(k) == Reached({[state |-> gs, handle |-> Some(root_index)]}, k)

---------------------------------------------------------------------------
\* C1.  After from_root and any sequence of explore and explore_further
\* calls, no two arena slots hold boards with the same canonical form: there
\* are as many distinct canonical boards as arena slots.
C1_Injective ==
    Cardinality({canonical(nodes[i].board) : i \in 1 .. Len(nodes)}) = Len(nodes)

\* An explore_further came second and met a board whose mirror image was
\* already stored.
C1_Witness ==
    /\ calls = 2
    /\ last_call[1] = "explore_further"
    /\ Len(nodes) > W
    /\ \E e \in rediscoveries : e.mirrored

\* C2 as claimed.  After explore(depth) on a fresh tree, column sequences
\* that give the same physical board lead, by children[col] from the root,
\* to one handle, and its slot holds that board up to canonical form.
C2_SameHandle ==
    FreshExplore =>
        \A p, q \in ReachedFromRoot(last_call[2]) :
            p.state.board = q.state.board =>
                /\ p.handle # None
                /\ p.handle = q.handle
                /\ BoardEq(nodes[p.handle[1] + 1].board, p.state.board)

\* The state C3 is about: the empty board, Red to move, explore(1).
ScenarioA ==
    /\ FreshExplore
    /\ last_call[2] = 1
    /\ RootBoard = empty
    /\ nodes[root_index + 1].turn = Red

\* C3 as amended.  On the empty 7x6 board with the first player to move,
\* explore(1) gives the root 7 realized children, each Ongoing, on 4 distinct
\* handles: columns i and 6 - i share a handle, their boards being mirror
\* images of each other.
C3_ScenarioA ==
    ScenarioA =>
        LET children == nodes[root_index + 1].children
        IN  /\ Len(children) = 7
            /\ \A i \in 1 .. 7 :
                   /\ children[i] # None
                   /\ nodes[children[i][1] + 1].result = Ongoing
                   /\ children[i] = children[8 - i]
            /\ Cardinality({children[i] : i \in 1 .. 7}) = 4

C3_Witness == ScenarioA /\ Len(nodes) = 5

\* C3 as claimed: the 7 children are on mutually distinct handles.
C3_DistinctHandles ==
    ScenarioA =>
        LET children == nodes[root_index + 1].children
        IN  /\ Len(children) = 7
            /\ \A i \in 1 .. 7 :
                   /\ children[i] # None
                   /\ nodes[children[i][1] + 1].result = Ongoing
            /\ Cardinality({children[i] : i \in 1 .. 7}) = 7

\* children[i] is None exactly for the full columns of node n
NoneIffFull(n) ==
    \A col \in Cols : (n.children[col + 1] = None) <=> ColumnFull(n.board, col)

\* C4 as amended.  After from_root and explore(depth), a node has W children
\* if it was expanded, that is if it is Ongoing and fewer than depth plies
\* from the root, and an empty children list otherwise; in an expanded node
\* children[i] is None exactly when column i is full.
C4_ChildrenShape ==
    FreshExplore =>
        \A i \in 1 .. Len(nodes) :
            LET n == nodes[i]
                expanded == /\ n.result = Ongoing
                            /\ Pieces(n.board) - Pieces(RootBoard) < last_call[2]
            IN  IF expanded
                THEN Len(n.children) = W /\ NoneIffFull(n)
                ELSE n.children = <<>>

\* An expanded node with a full column, a terminal node and a node that the
\* depth left unexpanded, in one tree.
C4_Witness ==
    /\ FreshExplore
    /\ \E i \in 1 .. Len(nodes) :
           /\ Len(nodes[i].children) = W
           /\ \E col \in Cols : ColumnFull(nodes[i].board, col)
    /\ \E i \in 1 .. Len(nodes) :
           nodes[i].result # Ongoing /\ nodes[i].children = <<>>
    /\ \E i \in 1 .. Len(nodes) :
           nodes[i].result = Ongoing /\ nodes[i].children = <<>>

\* C4 as claimed: every node, expanded or not, has W children.
C4_AlwaysW ==
    FreshExplore =>
        \A i \in 1 .. Len(nodes) :
            Len(nodes[i].children) = W /\ NoneIffFull(nodes[i])

\* C5 as claimed.  Whatever explore and explore_further calls are made, no
\* children list exceeds W entries.
C5_AtMostW == \A i \in 1 .. Len(nodes) : Len(nodes[i].children) <= W

\* C6.  When a legal move's board is already in the transposition map, the
\* handle found there (of a slot holding that board up to mirroring) is
\* pushed as the child, no arena slot is allocated, and the node found keeps
\* its children list, whatever depth remains.
C6_RediscoveryOnlyLinks ==
    \A e \in rediscoveries :
        /\ e.same_board
        /\ e.linked
        /\ e.slots = 0
        /\ e.child_kept

\* A rediscovery, with depth left to go on, of an Ongoing node that had not
\* been expanded.
C6_Witness ==
    \E e \in rediscoveries :
        e.depth >= 2 /\ e.child_open /\ ~e.child_expanded

\* Four cells of player p in a line, within bounds: horizontal, vertical or
\* either diagonal.
HasLine(b, p) ==
    \E x \in Cols, y \in Rows, d \in {<<1, 0>>, <<0, 1>>, <<1, 1>>, <<1, -1>>} :
        \A k \in 0 .. 3 :
            /\ x + k * d[1] \in Cols
            /\ y + k * d[2] \in Rows
            /\ Cell(b, x + k * d[1], y + k * d[2]) = p

HasEmpty(b) == \E x \in Cols, y \in Rows : Cell(b, x, y) = Empty

\* C7.  For a position of a game, Result::from_board is Win(p) exactly when
\* player p has four in a line, Draw exactly when nobody has and no cell is
\* Empty, and Ongoing otherwise; it is the result from_turn stores; and Red
\* playing column 3 on Red's row 0 of columns 0-2 wins.
C7_ResultMatchesLines ==
    LET result == Result_from_board(gs.board)
    IN  /\ gs.result = result
        /\ \A p \in {Red, Yellow} : (result = Win(p)) <=> HasLine(gs.board, p)
        /\ (result = Draw) <=>
               (~HasLine(gs.board, Red) /\ ~HasLine(gs.board, Yellow)
                    /\ ~HasEmpty(gs.board))
        /\ (result = Ongoing) <=>
               (~HasLine(gs.board, Red) /\ ~HasLine(gs.board, Yellow)
                    /\ HasEmpty(gs.board))
        /\ gs.board = play(BoardScenarioB, 3, Red).board => gs.result = Win(Red)

\* Scenario B: Red has played column 3.
C7_Witness ==
    /\ gs.board = play(BoardScenarioB, 3, Red).board
    /\ gs.result = Win(Red)

\* C8.  In every state explore and explore_further reach, a node whose
\* result is Win(_) or Draw has no realized child.
C8_TerminalNotExpanded ==
    \A i \in 1 .. Len(nodes) :
        nodes[i].result # Ongoing =>
            \A k \in 1 .. Len(nodes[i].children) : nodes[i].children[k] = None

\* explore_further was called, with depth to spend, at a terminal handle.
C8_Witness ==
    /\ calls > 0
    /\ last_call[1] = "explore_further"
    /\ last_call[2] > 0
    /\ nodes[last_call[3] + 1].result # Ongoing

\* C9.  A move into a full column is not fatal: play and from_turn return
\* None and leave the board alone, no arena slot and no map entry is made,
\* None is pushed for that column, and the loop goes on to the columns after
\* it (every expansion pushes W entries, column by column).
C9_FullColumn ==
    /\ \A e \in full_columns :
           /\ e.play_row = None
           /\ e.board_kept
           /\ e.slots = 0
           /\ e.entries = 0
           /\ e.placeholder
    /\ \A i \in 1 .. Len(nodes) :
           /\ Len(nodes[i].children) % W = 0
           /\ \A k \in 1 .. Len(nodes[i].children) :
                  ColumnFull(nodes[i].board, (k - 1) % W) <=>
                      nodes[i].children[k] = None
           /\ \A col \in Cols :
                  ColumnFull(nodes[i].board, col) =>
                      /\ play(nodes[i].board, col, nodes[i].turn).row = None
                      /\ play(nodes[i].board, col, nodes[i].turn).board = nodes[i].board
                      /\ GameState_from_turn(nodes[i], col) = None

\* An expansion met a full column and realized a child in a later column.
C9_Witness ==
    /\ full_columns # {}
    /\ \E i \in 1 .. Len(nodes) :
           \E k, l \in 1 .. Len(nodes[i].children) :
               /\ k < l
               /\ nodes[i].children[k] = None
               /\ nodes[i].children[l] # None

\* C10.  canonical is idempotent, a board and its column mirror have the
\* same canonical form, and two boards are equal (Board ==) exactly when
\* they are identical or column mirrors of each other.
C10_Canonical ==
    /\ \A b \in {gs.board, other} :
           /\ canonical(canonical(b)) = canonical(b)
           /\ canonical(b) = canonical(mirror(b))
    /\ BoardEq(gs.board, other) <=> (gs.board = other \/ gs.board = mirror(other))

\* Two boards, each a move on from the start, that differ and are mirror
\* images of each other.
C10_Witness ==
    /\ gs.board # other
    /\ gs.board = mirror(other)
    /\ gs.board # RootBoard
    /\ BoardEq(gs.board, other)

\* A step of explore or explore_further
ExploreStep == calls' = calls + 1

\* C11.  explore and explore_further only append to the arena: every slot
\* that was there before the call keeps its position, board, active player,
\* result and own stored index; and in every state nodes[i].index is Some(i)
\* and the stored result of every slot is Result::from_board of its board.
C11_OnlyAppends ==
    /\ [](\A i \in 1 .. Len(nodes) :
             /\ nodes[i].index = Some(i - 1)
             /\ nodes[i].result = Result_from_board(nodes[i].board))
    /\ [][ExploreStep =>
             /\ Len(nodes') >= Len(nodes)
             /\ \A i \in 1 .. Len(nodes) :
                    /\ nodes'[i].board = nodes[i].board
                    /\ nodes'[i].turn = nodes[i].turn
                    /\ nodes'[i].result = nodes[i].result
                    /\ nodes'[i].index = nodes[i].index]_vars

\* A second call, an explore_further below the root, appended slots behind
\* the ones the first call had made.
C11_Witness ==
    /\ calls = 2
    /\ last_call[1] = "explore_further"
    /\ last_call[3] # root_index
    /\ \E k \in 1 .. Len(nodes[last_call[3] + 1].children) :
           /\ nodes[last_call[3] + 1].children[k] # None
           /\ nodes[last_call[3] + 1].children[k][1] = Len(nodes) - 1

\* The handles reachable from the handles of S through realized child links
RECURSIVE ReachableFrom(_)
ReachableFrom(S) ==
    LET next == S \cup {c[1] : c \in UNION {{nodes[h + 1].children[k] :
                                k \in 1 .. Len(nodes[h + 1].children)} : h \in S} \ {None}}
    IN  IF next = S THEN S ELSE ReachableFrom(next)

IsWin(h) == nodes[h + 1].result \in {Win(Red), Win(Yellow)}

\* C12.  After prune_to_wins from the root on an all-false mask, the keep bit
\* of a slot is true exactly when the node is reachable from the root and it,
\* or a node reachable from it through realized child links, has result
\* Win(_); a node below which there are only Draw and Ongoing is not kept.
C12_KeepIffWinBelow ==
    last_call # <<>> /\ last_call[1] = "prune_to_wins" =>
        /\ Len(mask) = Len(nodes)
        /\ \A h \in Handles :
               mask[h + 1] <=>
                   /\ h \in ReachableFrom({root_index})
                   /\ \E d \in ReachableFrom({h}) : IsWin(d)

\* prune_to_wins ran on a tree with a win two plies below the root, beside
\* nodes without a win below them.
C12_Witness ==
    /\ last_call # <<>> /\ last_call[1] = "prune_to_wins"
    /\ mask[root_index + 1]
    /\ \E h \in Handles :
           /\ mask[h + 1]
           /\ ~IsWin(h)
           /\ h # root_index
    /\ \E h \in Handles : ~mask[h + 1] /\ nodes[h + 1].children # <<>>
    /\ \E h \in Handles : ~mask[h + 1] /\ nodes[h + 1].result = Draw

\* The slot that holds the target's board up to canonical form can be reached
\* from handle h through realized child links.
TargetBelow(h, target) ==
    \E d \in ReachableFrom({h}) : canonical(nodes[d + 1].board) = canonical(target)

\* C13 as claimed.  After prune_to_target from the root of an explored tree,
\* every node reachable from the root from which a node with the target's
\* canonical board can be reached (itself included) has its keep bit true,
\* also when nodes were linked through mirror-image transpositions.
C13_NoFalseNegative ==
    last_call # <<>> /\ last_call[1] = "prune_to_target" =>
        \A h \in ReachableFrom({root_index}) :
            TargetBelow(h, nodes[last_call[2] + 1].board) => mask[h + 1]

\* prune_to_target ran last, from the root, with the root's own board as the
\* target.
ScenarioD ==
    /\ last_call # <<>>
    /\ last_call[1] = "prune_to_target"
    /\ last_call[2] = root_index

\* C14.  prune_to_target from the root of an explored tree, with the root's
\* own board as the target and an all-false mask, leaves exactly one true
\* bit, at the root's slot.
C14_OnlyRootKept ==
    ScenarioD =>
        /\ Len(mask) = Len(nodes)
        /\ \A h \in Handles : mask[h + 1] <=> h = root_index

\* Scenario D on a tree whose root has realized children, some of them
\* expanded themselves.
C14_Witness ==
    /\ ScenarioD
    /\ \E k \in 1 .. Len(nodes[root_index + 1].children) :
           /\ nodes[root_index + 1].children[k] # None
           /\ nodes[nodes[root_index + 1].children[k][1] + 1].children # <<>>
    /\ mask[root_index + 1]

\* mask_nodes was the last call; masked_from is the tree it ran on.
JustMasked == last_call # <<>> /\ last_call[1] = "mask_nodes"

\* The position (from 1) among the kept slots of slot i of the arena
\* mask_nodes ran on
NewPos(i) == Cardinality({j \in 1 .. i : masked_from.keep[j]})

\* The entries of the old slot i's children list that are realized and kept
KeptEntries(i) ==
    {k \in 1 .. Len(masked_from.nodes[i].children) :
        /\ masked_from.nodes[i].children[k] # None
        /\ masked_from.keep[masked_from.nodes[i].children[k][1] + 1]}

\* C15.  mask_nodes(keep) with a mask that keeps the root is a closed,
\* order-preserving compaction: the arena has as many slots as keep has true
\* bits; the kept nodes stay in their order, each with its own index equal to
\* its new position; the root handle is the slot of the old root; and the
\* children of a retained node are its realized kept children of before, in
\* order, each handle now naming the slot that holds the same node.
C15_Compaction ==
    JustMasked /\ masked_from.keep[masked_from.root_index + 1] =>
        LET old == masked_from.nodes
            keep == masked_from.keep
        IN  /\ Len(nodes) = Cardinality({i \in 1 .. Len(old) : keep[i]})
            /\ root_index + 1 = NewPos(masked_from.root_index + 1)
            /\ \A i \in 1 .. Len(old) :
                   keep[i] =>
                       LET n == nodes[NewPos(i)]
                       IN  /\ n.board = old[i].board
                           /\ n.turn = old[i].turn
                           /\ n.result = old[i].result
                           /\ n.index = Some(NewPos(i) - 1)
                           /\ Len(n.children) = Cardinality(KeptEntries(i))
                           /\ \A k \in KeptEntries(i) :
                                  n.children[Cardinality({l \in KeptEntries(i) : l <= k})]
                                      = Some(NewPos(old[i].children[k][1] + 1) - 1)

\* A compaction that kept the root, dropped a slot in front of a kept one,
\* and dropped one realized child of a retained node while keeping another.
C15_Witness ==
    /\ JustMasked
    /\ masked_from.keep[masked_from.root_index + 1]
    /\ \E i, j \in 1 .. Len(masked_from.nodes) :
           /\ i < j
           /\ ~masked_from.keep[i]
           /\ masked_from.keep[j]
           /\ \E k \in KeptEntries(1) : masked_from.nodes[1].children[k] = Some(j - 1)
           /\ \E k \in 1 .. Len(masked_from.nodes[1].children) :
                  masked_from.nodes[1].children[k] = Some(i - 1)

\* C16 as claimed.  After mask_nodes with a mask whose bit for the root is
\* false, the root handle does not index past the end of the arena and does
\* not name the slot of a surviving node other than the root.
C16_NoDanglingRoot ==
    JustMasked /\ ~masked_from.keep[masked_from.root_index + 1] =>
        /\ root_index < Len(nodes)
        /\ \A i \in 1 .. Len(masked_from.nodes) :
               masked_from.keep[i] /\ i # masked_from.root_index + 1 =>
                   root_index + 1 # NewPos(i)

\* C17 as claimed, for masks that keep the root.  Once mask_nodes has run, no
\* handle stored in the tree names a missing slot or another node than it
\* did: the root handle and every child handle are in range, every own index
\* is the slot's position, every entry of the transposition map names the
\* slot holding the board of its key, and the links a later explore or
\* explore_further makes from the map go to in-range slots holding the board
\* of the move up to canonical form.
C17_NoStaleHandle ==
    masked_from # <<>> /\ masked_from.keep[masked_from.root_index + 1] =>
        /\ root_index < Len(nodes)
        /\ \A h \in Handles :
               /\ nodes[h + 1].index = Some(h)
               /\ \A k \in 1 .. Len(nodes[h + 1].children) :
                      nodes[h + 1].children[k] # None =>
                          nodes[h + 1].children[k][1] \in Handles
        /\ \A key \in DOMAIN map :
               /\ map[key] \in Handles
               /\ canonical(nodes[map[key] + 1].board) = key
        /\ \A e \in rediscoveries : e.in_range /\ e.same_board

\* The realized parent-to-child edges reachable from the root, one for every
\* realized entry of the children list of a reachable node
ReachableEdges ==
    {e \in ReachableFrom({root_index}) \X (1 .. (MaxCalls * W)) :
        /\ e[2] <= Len(nodes[e[1] + 1].children)
        /\ nodes[e[1] + 1].children[e[2]] # None}

\* C18 as claimed.  On an explored tree count_children() is the number of
\* realized parent-to-child edges reachable from the root, each counted once:
\* the edges below a node with two parents are not counted once per path.
C18_CountsEdgesOnce ==
    masked_from = <<>> => count_children(Tree) = Cardinality(ReachableEdges)

\* C19 as claimed.  Right after from_root the transposition map is exactly
\* canonical(root.board) -> 0, and after any explore and explore_further
\* calls the canonical board of every arena slot is a key of the map, with
\* the slot's handle as its value.
C19_MapCoversArena ==
    /\ calls = 0 => map = MapInsert(EmptyMap, canonical(nodes[1].board), 0)
    /\ \A h \in Handles : MapGet(map, nodes[h + 1].board) = Some(h)

\* The number of pieces in column x of board b
Height(b, x) == Cardinality({y \in Rows : Cell(b, x, y) # Empty})

\* Column x of b holds, from the bottom, the pieces column x of target
\* starts with.
ColumnPrefix(b, target, x) ==
    /\ Height(b, x) <= Height(target, x)
    /\ \A y \in 0 .. (Height(b, x) - 1) : Cell(b, x, y) = Cell(target, x, y)

\* C20.  The fast path of prune_to_target does not reject a board each of
\* whose columns is a prefix of the target's same column; it rejects exactly
\* when some column holds more pieces than the target's, or as many in a
\* different order.
C20_FastPath ==
    /\ (\A x \in Cols : ColumnPrefix(gs.board, other, x)) => ~FastReject(gs.board, other)
    /\ FastReject(gs.board, other) <=>
           \E x \in Cols :
               \/ Height(gs.board, x) > Height(other, x)
               \/ /\ Height(gs.board, x) = Height(other, x)
                  /\ ~ColumnPrefix(gs.board, other, x)

\* A board and a target two moves on from it, the board's columns being
\* prefixes of the target's: the fast path lets it through.
C20_Witness ==
    /\ Pieces(other) = Pieces(gs.board) + 2
    /\ \A x \in Cols : ColumnPrefix(gs.board, other, x)
    /\ \E x \in Cols : Height(gs.board, x) < Height(other, x)
    /\ ~FastReject(gs.board, other)

\* Column x of board b is a run of pieces from row 0 with only Empty above.
Gravity(b) ==
    \A x \in Cols, y \in Rows :
        Cell(b, x, y) # Empty => \A z \in 0 .. (y - 1) : Cell(b, x, z) # Empty

\* C21.  From a root board that satisfies gravity, every board in the arena
\* after any explore and explore_further calls satisfies gravity; and play on
\* a board of the arena fills the lowest Empty row of its column and changes
\* no other cell.
C21_Gravity ==
    Gravity(nodes[1].board) =>
        \A h \in Handles :
            LET b == nodes[h + 1].board
            IN  /\ Gravity(b)
                /\ \A col \in Cols :
                       LET played == play(b, col, nodes[h + 1].turn)
                       IN  played.row # None =>
                               /\ Cell(b, col, played.row[1]) = Empty
                               /\ \A z \in 0 .. (played.row[1] - 1) : Cell(b, col, z) # Empty
                               /\ \A x \in Cols, y \in Rows :
                                      Cell(played.board, x, y) =
                                          IF x = col /\ y = played.row[1]
                                          THEN nodes[h + 1].turn
                                          ELSE Cell(b, x, y)

\* A board of the arena on which two pieces were stacked in one column that
\* was empty in the root's board.
C21_Witness ==
    /\ Gravity(nodes[1].board)
    /\ \E h \in Handles, col \in Cols :
           /\ \A y \in Rows : Cell(RootBoard, col, y) = Empty
           /\ Cell(nodes[h + 1].board, col, 0) # Empty
           /\ Cell(nodes[h + 1].board, col, 1) # Empty
           /\ Cell(nodes[h + 1].board, col, 2) = Empty

\* The realized child links of the arena: <<parent handle, child handle>>
Links ==
    UNION {{<<h, nodes[h + 1].children[k][1]>> :
                k \in {l \in 1 .. Len(nodes[h + 1].children) :
                           nodes[h + 1].children[l] # None}} : h \in Handles}

\* C22.  With a real player to move at the root, every node of the arena has
\* a real player to move, every realized child link leads to a node whose
\* player to move is the opposite of its parent's, linked through the
\* transposition map or not, and no flip that explore or explore_further
\* makes is the fatal one.
C22_TurnsAlternate ==
    nodes[1].turn \in {Red, Yellow} =>
        /\ \A h \in Handles :
               /\ nodes[h + 1].turn \in {Red, Yellow}
               /\ flip(nodes[h + 1].turn) # Panicked
        /\ \A l \in Links :
               /\ nodes[l[2] + 1].turn = flip(nodes[l[1] + 1].turn)
               /\ nodes[l[2] + 1].turn # nodes[l[1] + 1].turn

\* An explore three plies deep that linked a child through the transposition
\* map both to a slot holding the move's board and to one holding its mirror
\* image.
C22_Witness ==
    /\ FreshExplore
    /\ last_call[2] = 3
    /\ \E e \in rediscoveries : e.mirrored /\ e.depth = 1
    /\ \E e \in rediscoveries : ~e.mirrored /\ e.depth = 1

\* The most slots a find_children with the given depth can append: W for
\* every level of the recursion
RECURSIVE MostSlots(_)
MostSlots(depth) == IF depth = 0 THEN 0 ELSE W * (1 + MostSlots(depth - 1))

\* C23.  Every explore(depth) and explore_further(depth, at) returns, after a
\* recursion of at most depth levels entered with ever smaller depths: the
\* loop of a level runs with a depth between 1 and the call's, every slot the
\* call appends is at most depth plies below the node it started at, so that
\* it appends a bounded number of slots, and a call with depth 0 or at a node
\* that is not Ongoing changes nothing in the tree.
C23_Terminates ==
    /\ [](calls > 0 => \A e \in rediscoveries : e.depth \in 1 .. last_call[2])
    /\ [][ExploreStep =>
             LET depth == last_call'[2]
                 at == last_call'[3]
             IN  /\ depth = 0 \/ nodes[at + 1].result # Ongoing =>
                        nodes' = nodes /\ map' = map /\ root_index' = root_index
                 /\ Len(nodes') - Len(nodes) <= MostSlots(depth)
                 /\ \A i \in (Len(nodes) + 1) .. Len(nodes') :
                        Pieces(nodes'[i].board) - Pieces(nodes[at + 1].board)
                            \in 1 .. depth]_vars

\* A call with depth 3 that appended a slot three plies below its start and
\* whose innermost level, running with depth 1, met a board already stored.
C23_Witness ==
    /\ calls = 1
    /\ last_call[2] = 3
    /\ \E h \in Handles : Pieces(nodes[h + 1].board) = Pieces(RootBoard) + 3
    /\ \E e \in rediscoveries : e.depth = 1
    /\ \E e \in rediscoveries : e.depth = 3

\* C24.  After from_root and one explore(d) on the fresh tree the arena is
\* complete up to mirror symmetry: every board reached from the root's board
\* by at most d alternating legal moves through Ongoing positions has the
\* canonical form of the board of some arena slot.
C24_Complete ==
    FreshExplore =>
        \A p \in ReachedFromRoot(last_call[2]) :
            \E h \in Handles : BoardEq(nodes[h + 1].board, p.state.board)

\* An explore three plies deep in which some board was reached a second time,
\* as a mirror image, and a game ended at the third ply.
C24_Witness ==
    /\ FreshExplore
    /\ last_call[2] = 3
    /\ \E e \in rediscoveries : e.mirrored
    /\ \E p \in ReachedFromRoot(3) :
           /\ p.state.result # Ongoing
           /\ Pieces(p.state.board) = Pieces(RootBoard) + 3

\* C25.  After any explore and explore_further calls every realized child
\* link goes to a node whose board holds exactly one piece more than its
\* parent's: the number of pieces grows along every path of child links, so
\* that no path comes back to a node and a recursive traversal of the
\* children cannot loop; count_children returns, having counted every link
\* at least once.
C25_Acyclic ==
    /\ \A l \in Links :
           Pieces(nodes[l[2] + 1].board) = Pieces(nodes[l[1] + 1].board) + 1
    /\ count_children(Tree) >= Cardinality(Links)

\* After two calls, a node with realized children of its own that has two
\* different parents.
C25_Witness ==
    /\ calls = 2
    /\ \E k, l \in Links :
           /\ k[1] # l[1]
           /\ k[2] = l[2]
           /\ nodes[k[2] + 1].children # <<>>

===========================================================================
